---- MODULE Spec2Model ----
(***************************************************************************)
(* readme-forge: the project analyzer (parseToml, analyzeStructure,        *)
(* extractFeatures, detectScripts, analyzeProject) and the README          *)
(* generator (generateReadme and its helpers).                             *)
(*                                                                         *)
(* Strings are sequences of symbols.  A symbol is either one punctuation   *)
(* or white-space character (" ", "[", "]", ".", "=", "#", "/", "-", "_",  *)
(* the two quotes, a line feed, one digit) or a run of letters that the    *)
(* code never looks into ("project", "widget").  Every character class the *)
(* code tests is uniform over the letters of a run, so the regular         *)
(* expressions and the string methods are computed symbol by symbol.       *)
(*                                                                         *)
(* A JavaScript value is a record [t, s, p]: t its type tag, s its text    *)
(* (string, number and boolean), p its own properties in insertion order   *)
(* (object and array) as pairs <<key, value>>.                             *)
(***************************************************************************)
EXTENDS Integers, Sequences, FiniteSets, TLC

VARIABLES
    fsys,        \* the directory analyzeProject is run on (the input)
    analysis,    \* the record analyzeProject fills in
    pc,          \* position in analyzeProject / generateReadme
    raised,      \* an exception has left analyzeProject
    threw,       \* the probes whose try block ended in its catch
    typeWrites,  \* number of assignments to analysis.type after initialisation
    readme,      \* the outcome of generateReadme(analysis)
    tlines,      \* parseToml: the lines of the input consumed so far
    tst,         \* parseToml: result, currentSection and position
    proc         \* the command line process: arguments, files, checks, writes, exit code

vars == <<fsys, analysis, pc, raised, threw, typeWrites, readme, tlines, tst, proc>>

---------------------------------------------------------------------------
(* JavaScript values *)

Undef == [t |-> "undef", s |-> <<>>, p |-> <<>>]
Null == [t |-> "null", s |-> <<>>, p |-> <<>>]
Str(cs) == [t |-> "str", s |-> cs, p |-> <<>>]
Num(cs) == [t |-> "num", s |-> cs, p |-> <<>>]
Bool(b) == [t |-> "bool", s |-> IF b THEN <<"true">> ELSE <<"false">>, p |-> <<>>]
Obj(props) == [t |-> "obj", s |-> <<>>, p |-> props]
Arr(elems) == [t |-> "arr", s |-> <<>>, p |-> elems]
EmptyObj == Obj(<<>>)

Digits == {"0", "1", "2", "3", "5"}

\* A numeric text is zero when it holds no digit other than 0.
IsZeroText(cs) == \A i \in 1..Len(cs) : cs[i] \in {"0", ".", "-"}

\* ToBoolean: what `!v`, `v || d` and `if (v)` test.
Truthy(v) ==
    CASE v.t = "str" -> v.s # <<>>
      [] v.t = "num" -> ~IsZeroText(v.s)
      [] v.t = "bool" -> v.s = <<"true">>
      [] v.t \in {"obj", "arr"} -> TRUE
      [] OTHER -> FALSE

\* `a || b`
OrElse(a, b) == IF Truthy(a) THEN a ELSE b

\* v[key] for a key that is no property of a built-in prototype: an own
\* property of an object, undefined on a primitive.  The caller handles
\* null and undefined, on which the read raises TypeError.
RECURSIVE Lookup(_, _)
Lookup(props, key) ==
    IF props = <<>> THEN Undef
    ELSE IF Head(props)[1] = key THEN Head(props)[2]
    ELSE Lookup(Tail(props), key)

Prop(v, key) == IF v.t \in {"obj", "arr"} THEN Lookup(v.p, key) ELSE Undef

IsNullish(v) == v.t \in {"undef", "null"}

\* String(v), as a template literal interpolates it.
ToStr(v) ==
    CASE v.t \in {"str", "num", "bool"} -> v.s
      [] v.t = "undef" -> <<"undefined">>
      [] v.t = "null" -> <<"null">>
      [] v.t = "arr" -> <<"[array]">>
      [] OTHER -> <<"[object Object]">>

---------------------------------------------------------------------------
(* String helpers *)

IsWs(c) == c \in {" ", "\t"}

RECURSIVE TrimLeft(_)
TrimLeft(s) == IF s # <<>> /\ IsWs(Head(s)) THEN TrimLeft(Tail(s)) ELSE s

RECURSIVE TrimRight(_)
TrimRight(s) ==
    IF s # <<>> /\ IsWs(s[Len(s)]) THEN TrimRight(SubSeq(s, 1, Len(s) - 1)) ELSE s

Trim(s) == TrimRight(TrimLeft(s))

\* Index of the first occurrence of sep in s, 0 when there is none.
IndexOf(s, sep) ==
    IF \E i \in 1..Len(s) : s[i] = sep
    THEN CHOOSE i \in 1..Len(s) : s[i] = sep /\ \A j \in 1..(i - 1) : s[j] # sep
    ELSE 0

\* s.split(sep)
RECURSIVE Split(_, _)
Split(s, sep) ==
    LET i == IndexOf(s, sep)
    IN  IF i = 0 THEN <<s>>
        ELSE <<SubSeq(s, 1, i - 1)>> \o Split(SubSeq(s, i + 1, Len(s)), sep)

\* s.replace(/a/g, b) for single symbols a and b
ReplaceAll(s, a, b) == [i \in 1..Len(s) |-> IF s[i] = a THEN b ELSE s[i]]

Includes(s, sym) == \E i \in 1..Len(s) : s[i] = sym

StartsWith(s, sym) == s # <<>> /\ Head(s) = sym

EndsWith(s, sym) == s # <<>> /\ s[Len(s)] = sym

\* s.slice(1, -1)
Slice1(s) == IF Len(s) <= 2 THEN <<>> ELSE SubSeq(s, 2, Len(s) - 1)

---------------------------------------------------------------------------
(* parseToml *)

\* `!isNaN(value)` for a text of digits, "." and "-": a decimal literal.
IsNumeric(cs) ==
    LET body == IF StartsWith(cs, "-") THEN Tail(cs) ELSE cs
    IN  /\ \E i \in 1..Len(body) : body[i] \in Digits
        /\ \A i \in 1..Len(body) : body[i] \in Digits \cup {"."}
        /\ Cardinality({i \in 1..Len(body) : body[i] = "."}) <= 1

RECURSIVE StripLeadingZeros(_)
StripLeadingZeros(cs) ==
    IF Len(cs) > 1 /\ Head(cs) = "0" THEN StripLeadingZeros(Tail(cs)) ELSE cs

RECURSIVE StripTrailingZeros(_)
StripTrailingZeros(cs) ==
    IF cs # <<>> /\ cs[Len(cs)] = "0"
    THEN StripTrailingZeros(SubSeq(cs, 1, Len(cs) - 1))
    ELSE cs

\* The text of Number(value): no sign on zero, no leading zeros, no
\* trailing zeros of the fraction, no empty fraction.
NumberText(cs) ==
    LET neg == StartsWith(cs, "-")
        body == IF neg THEN Tail(cs) ELSE cs
        dot == IndexOf(body, ".")
        int == IF dot = 0 THEN body ELSE SubSeq(body, 1, dot - 1)
        frac == IF dot = 0 THEN <<>> ELSE SubSeq(body, dot + 1, Len(body))
        i2 == IF int = <<>> THEN <<"0">> ELSE StripLeadingZeros(int)
        f2 == StripTrailingZeros(frac)
    IN  (IF neg /\ ~IsZeroText(body) THEN <<"-">> ELSE <<>>)
            \o i2 \o (IF f2 = <<>> THEN <<>> ELSE <<".">> \o f2)

\* Lines 43-54: the value of a key/value line.
CoerceValue(value) ==
    IF StartsWith(value, "\"") /\ EndsWith(value, "\"") THEN Str(Slice1(value))
    ELSE IF StartsWith(value, "'") /\ EndsWith(value, "'") THEN Str(Slice1(value))
    ELSE IF value = <<"true">> THEN Bool(TRUE)
    ELSE IF value = <<"false">> THEN Bool(FALSE)
    ELSE IF IsNumeric(value) THEN Num(NumberText(value))
    ELSE Str(value)

\* /^\[([^\]]+)\]$/ on a trimmed line
IsSectionHeader(t) ==
    /\ Len(t) >= 3
    /\ t[1] = "["
    /\ t[Len(t)] = "]"
    /\ \A i \in 2..(Len(t) - 1) : t[i] # "]"

SectionName(t) == SubSeq(t, 2, Len(t) - 1)

\* /^([^=]+)=\s*(.+)$/ on a trimmed line: a key before the first "=", a
\* value after it.
IsKeyValue(t) ==
    LET i == IndexOf(t, "=")
    IN  i > 1 /\ i < Len(t)

KvKey(t) == Trim(SubSeq(t, 1, IndexOf(t, "=") - 1))

KvRaw(t) == Trim(SubSeq(t, IndexOf(t, "=") + 1, Len(t)))

IsSkipped(t) == t = <<>> \/ StartsWith(t, "#")

\* The nested result is kept flat: a function from the path of keys to the
\* value there, an object being EmptyObj at its path with its properties at
\* the paths below it.  The root object is at <<>>.
EmptyTree == (<<>> :> EmptyObj)

IsPrefix(p, q) == Len(p) <= Len(q) /\ SubSeq(q, 1, Len(p)) = p

TreeGet(tree, path) == IF path \in DOMAIN tree THEN tree[path] ELSE Undef

\* obj[key] = v: whatever was at the path, and below it, is replaced.
TreeSet(tree, path, v) ==
    LET keep == {q \in DOMAIN tree : ~IsPrefix(path, q)}
    IN  [q \in keep \cup {path} |-> IF q = path THEN v ELSE tree[q]]

\* currentSection is a reference to an object of the result ("ref", with
\* its path), a primitive value ("prim") or undefined ("undef").
RootRef == [kind |-> "ref", path |-> <<>>]
PrimCur == [kind |-> "prim", path |-> <<>>]
UndefCur == [kind |-> "undef", path |-> <<>>]

\* Lines 31-32, one round of the loop over the parts of a section name.
\* The module is not in strict mode: a property read on a primitive gives
\* undefined and an assignment to it is dropped; on undefined both raise.
EnterPart(st, part) ==
    IF st.status # "run" THEN st
    ELSE IF st.cur.kind = "undef" THEN [st EXCEPT !.status = "threw"]
    ELSE IF st.cur.kind = "prim" THEN [st EXCEPT !.cur = UndefCur]
    ELSE LET q == Append(st.cur.path, part)
             v == TreeGet(st.tree, q)
         IN  IF ~Truthy(v)
             THEN [st EXCEPT !.tree = TreeSet(st.tree, q, EmptyObj),
                             !.cur = [kind |-> "ref", path |-> q]]
             ELSE IF v.t = "obj"
             THEN [st EXCEPT !.cur = [kind |-> "ref", path |-> q]]
             ELSE [st EXCEPT !.cur = PrimCur]

RECURSIVE EnterParts(_, _)
EnterParts(st, parts) ==
    IF parts = <<>> THEN st ELSE EnterParts(EnterPart(st, Head(parts)), Tail(parts))

\* Line 56: currentSection[key] = value
StoreKey(st, key, value) ==
    IF st.cur.kind = "undef" THEN [st EXCEPT !.status = "threw"]
    ELSE IF st.cur.kind = "prim" THEN st
    ELSE [st EXCEPT !.tree = TreeSet(st.tree, Append(st.cur.path, key), value)]

\* Lines 18-58: the body of the loop, for one line.
TomlStep(st, line) ==
    LET t == Trim(line)
    IN  IF st.status # "run" THEN st
        ELSE IF IsSkipped(t) THEN st
        ELSE IF IsSectionHeader(t)
        THEN EnterParts([st EXCEPT !.cur = RootRef], Split(SectionName(t), "."))
        ELSE IF IsKeyValue(t) THEN StoreKey(st, KvKey(t), CoerceValue(KvRaw(t)))
        ELSE st

TomlStart == [tree |-> EmptyTree, cur |-> RootRef, status |-> "run"]

RECURSIVE TomlFold(_, _)
TomlFold(st, lines) ==
    IF lines = <<>> THEN st ELSE TomlFold(TomlStep(st, Head(lines)), Tail(lines))

RECURSIVE SetToSeq(_)
SetToSeq(S) ==
    IF S = {} THEN <<>>
    ELSE LET x == CHOOSE y \in S : TRUE IN <<x>> \o SetToSeq(S \ {x})

\* The nested value at a path of the flat result.  Callers read the result
\* by key only, so the order of an object's properties is immaterial.
RECURSIVE TreeValue(_, _)
TreeValue(tree, path) ==
    IF tree[path].t # "obj" THEN tree[path]
    ELSE LET kids == SetToSeq({q \in DOMAIN tree :
                                 Len(q) = Len(path) + 1 /\ IsPrefix(path, q)})
         IN  Obj([i \in 1..Len(kids) |->
                    <<kids[i][Len(kids[i])], TreeValue(tree, kids[i])>>])

\* parseToml(content): threw when it raises, else value is what it returns.
parseToml(content) ==
    LET st == TomlFold(TomlStart, Split(content, "\n"))
    IN  [threw |-> st.status = "threw",
         value |-> IF st.status = "threw" THEN Undef ELSE TreeValue(st.tree, <<>>)]

---------------------------------------------------------------------------
(* parseToml, line by line *)

MaxLines == 3

\* The lines parseToml is fed: blank, comment, section headers, key/value
\* lines with each kind of value, and lines that match neither form.
LinePool ==
    { <<>>,
      <<"#", " ", "c">>,
      <<"[", "a", "]">>,
      <<" ", "[", "a", ".", "b", "]", " ">>,
      <<"[", "b", "]">>,
      <<"a", " ", "=", " ", "1">>,
      <<"b", " ", "=", " ", "0">>,
      <<"b", "=", "'", "'">>,
      <<"k", " ", "=", " ", "\"", "v", "\"">>,
      <<"k", "=", "2">>,
      <<"flag", "=", "true">>,
      <<"a", ".", "b", "=", "0", "5">>,
      <<"junk">>,
      <<"[", "a">>,
      <<"=", "x">>,
      <<"k", " ", "=">> }

IdleFsys == [dir |-> <<>>]
IdleToml == [tree |-> EmptyTree, cur |-> RootRef, status |-> "idle"]
IdleCli == [status |-> "idle"]

mainVars == <<fsys, analysis, pc, raised, threw, typeWrites, readme, proc>>
tomlVars == <<tlines, tst>>

InitToml ==
    /\ tlines = <<>>
    /\ tst = TomlStart
    /\ proc = IdleCli
    /\ fsys = IdleFsys
    /\ analysis = [type |-> "idle"]
    /\ pc = "idle"
    /\ raised = FALSE
    /\ threw = {}
    /\ typeWrites = 0
    /\ readme = [status |-> "none", lines |-> <<>>]

\* One round of the loop of lines 18-58 on the next line of the input.
TomlLine ==
    /\ tst.status = "run"
    /\ Len(tlines) < MaxLines
    /\ \E l \in LinePool :
         /\ tlines' = Append(tlines, l)
         /\ tst' = TomlStep(tst, l)
    /\ UNCHANGED mainVars

\* Line 60: the input is exhausted, the result is returned.
TomlReturn ==
    /\ tst.status = "run"
    /\ tst' = [tst EXCEPT !.status = "returned"]
    /\ UNCHANGED <<tlines, mainVars>>

NextToml == TomlLine \/ TomlReturn

SpecToml == InitToml /\ [][NextToml]_vars

---------------------------------------------------------------------------
(* The directory analyzeProject is run on *)

RECURSIVE JoinLines(_)
JoinLines(ls) ==
    IF ls = <<>> THEN <<>>
    ELSE IF Len(ls) = 1 THEN ls[1]
    ELSE ls[1] \o <<"\n">> \o JoinLines(Tail(ls))

\* A file: absent, present but unreadable (a directory of that name, no
\* permission), or present with its text.
AbsentFile == [exists |-> FALSE, readable |-> FALSE, content |-> <<>>]
UnreadableFile == [exists |-> TRUE, readable |-> FALSE, content |-> <<>>]
TextFile(c) == [exists |-> TRUE, readable |-> TRUE, content |-> c]

\* package.json: parses says whether JSON.parse accepts the text, v is the
\* value it returns.
AbsentJson == [exists |-> FALSE, readable |-> FALSE, parses |-> FALSE, v |-> Undef]
UnreadableJson == [exists |-> TRUE, readable |-> FALSE, parses |-> FALSE, v |-> Undef]
MalformedJson == [exists |-> TRUE, readable |-> TRUE, parses |-> FALSE, v |-> Undef]
JsonFile(v) == [exists |-> TRUE, readable |-> TRUE, parses |-> TRUE, v |-> v]

GithubUrl == <<"https", ":", "/", "/", "github.com", "/", "acme", "/", "widget">>

PkgLib ==
    Obj(<< <<<<"name">>, Str(<<"my", "-", "pkg">>)>>,
           <<<<"version">>, Str(<<"1", ".", "2", ".", "3">>)>>,
           <<<<"description">>, Str(<<"A", " ", "library">>)>>,
           <<<<"license">>, Str(<<"MIT">>)>>,
           <<<<"author">>, Str(<<"Ann">>)>>,
           <<<<"main">>, Str(<<"index", ".", "js">>)>>,
           <<<<"keywords">>, Arr(<< <<<<"0">>, Str(<<"docs">>)>> >>)>>,
           <<<<"dependencies">>, Obj(<< <<<<"chalk">>, Str(<<"5">>)>> >>)>>,
           <<<<"scripts">>,
             Obj(<< <<<<"test">>, Str(<<"jest">>)>>,
                    <<<<"build">>, Str(<<"tsc">>)>>,
                    <<<<"lint">>, Str(<<"eslint">>)>> >>)>> >>)

PkgCli ==
    Obj(<< <<<<"name">>, Str(<<"cli", "-", "tool">>)>>,
           <<<<"bin">>, Obj(<< <<<<"mycli">>, Str(<<"cli", ".", "js">>)>> >>)>>,
           <<<<"author">>, Obj(<< <<<<"name">>, Str(<<"Bob">>)>> >>)>>,
           <<<<"repository">>, Obj(<< <<<<"url">>, Str(GithubUrl)>> >>)>>,
           <<<<"types">>, Str(<<"index", ".", "d", ".", "ts">>)>>,
           <<<<"scripts">>, Obj(<< <<<<"start">>, Str(<<"node", " ", "cli">>)>> >>)>> >>)

PkgBinString == Obj(<< <<<<"bin">>, Str(<<"cli", ".", "js">>)>> >>)

PkgOdd ==
    Obj(<< <<<<"name">>, Num(<<"5">>)>>,
           <<<<"license">>, Obj(<< <<<<"type">>, Str(<<"MIT">>)>> >>)>> >>)

PackageJsonPool ==
    { AbsentJson, MalformedJson, JsonFile(Null), JsonFile(PkgLib),
      JsonFile(PkgCli), JsonFile(PkgBinString), JsonFile(PkgOdd) }

PyprojectPool ==
    { AbsentFile,
      UnreadableFile,
      TextFile(<<>>),
      TextFile(JoinLines(<< <<"[", "project", "]">>,
                            <<"name", " ", "=", " ", "\"", "my", "-", "lib", "\"">>,
                            <<"version", "=", "\"", "1", ".", "2", "\"">>,
                            <<"license", "=", "\"", "MIT", "\"">>,
                            <<"[", "tool", ".", "pytest", "]">> >>)),
      TextFile(JoinLines(<< <<"[", "tool", ".", "poetry", "]">>,
                            <<"name", "=", "'", "poet", "'">>,
                            <<"authors", "=", "[", "\"", "Ann", "\"", "]">> >>)),
      TextFile(JoinLines(<< <<"[", "project", "]">>,
                            <<"name", " ", "=", " ", "1", "2", "3">> >>)),
      TextFile(JoinLines(<< <<"[", "project", "]">>,
                            <<"name", "=", "\"", "lib", "\"">>,
                            <<"[", "project", ".", "license", "]">>,
                            <<"text", "=", "\"", "MIT", "\"">> >>)),
      TextFile(JoinLines(<< <<"project", "=", "1">>,
                            <<"[", "project", ".", "urls", "]">>,
                            <<"home", "=", "\"", "h", "\"">> >>)) }

GoModPool ==
    { AbsentFile,
      UnreadableFile,
      TextFile(<<"module", " ", "github.com", "/", "acme", "/", "widget", "\n",
                 "\n", "go", " ", "1", ".", "2", "1">>),
      TextFile(<<"module", " ", "example.com", "/", "tool", "/", "\n">>),
      TextFile(<<"module", "\t", "mymod">>),
      TextFile(<<"/", "/", " ", "Deprecated", ":", " ", "this", " ", "module", " ",
                 "is", " ", "retired", "\n",
                 "module", " ", "github.com", "/", "acme", "/", "widget", "\n">>),
      TextFile(<<"go", " ", "1", ".", "2", "1">>) }

CargoPool ==
    { AbsentFile,
      UnreadableFile,
      TextFile(JoinLines(<< <<"[", "package", "]">>,
                            <<"name", " ", "=", " ", "\"", "my", "_", "crate", "\"">>,
                            <<"version", "=", "\"", "0", ".", "1", "\"">>,
                            <<"license", "=", "\"", "MIT", "\"">>,
                            <<"repository", "=", "\"">> \o GithubUrl \o <<"\"">>,
                            <<"authors", "=", "[", "\"", "Ann", "\"", "]">> >>)),
      TextFile(JoinLines(<< <<"[", "package", "]">>, <<"name", "=", "5">> >>)),
      TextFile(JoinLines(<< <<"[", "dependencies", "]">>,
                            <<"serde", "=", "\"", "1", "\"">> >>)),
      TextFile(JoinLines(<< <<"package", "=", "1">>,
                            <<"[", "package", ".", "metadata", "]">>,
                            <<"k", "=", "1">> >>)) }

\* The directory's path.
DirPool == { <<"/", "work", "/", "my", "-", "app", "/">>, <<"/">> }

\* An entry of the directory, as readdirSync lists it.
Entry(name, isDir) == [name |-> name, isDir |-> isDir]

\* A listing: readdirSync fails on the directory, or returns its entries.
Unlistable == [ok |-> FALSE, entries |-> <<>>]
Listing(es) == [ok |-> TRUE, entries |-> es]

ListingPool ==
    { Unlistable,
      Listing(<<>>),
      Listing(<< Entry(<<"tests">>, TRUE), Entry(<<".", "github">>, TRUE),
                 Entry(<<"Bin">>, TRUE), Entry(<<"README", ".", "md">>, FALSE),
                 Entry(<<"Makefile">>, FALSE) >>) }

MakefileText ==
    JoinLines(<< <<"build", ":">>, <<"\t", "cc", " ", "main">>,
                 <<".", "PHONY", ":", " ", "build">>,
                 <<"run", "-", "all", ":", " ", "build">> >>)

---------------------------------------------------------------------------
(* analyzeProject: the record and the four probes *)

RECURSIVE StripTrailingSlashes(_)
StripTrailingSlashes(s) ==
    IF s # <<>> /\ s[Len(s)] = "/"
    THEN StripTrailingSlashes(SubSeq(s, 1, Len(s) - 1))
    ELSE s

\* path.basename(dir)
Basename(dir) ==
    LET t == StripTrailingSlashes(dir)
        slashes == {i \in 1..Len(t) : t[i] = "/"}
        last == IF slashes = {} THEN 0
                ELSE CHOOSE i \in slashes : \A j \in slashes : j <= i
    IN  SubSeq(t, last + 1, Len(t))

\* `{}` as analysis.structure starts out: every flag reads as undefined.
NoStructure ==
    [hasTests |-> FALSE, hasDocs |-> FALSE, hasExamples |-> FALSE,
     hasSrc |-> FALSE, hasLib |-> FALSE, hasBin |-> FALSE,
     hasConfig |-> FALSE, hasCI |-> FALSE,
     mainFiles |-> <<>>, directories |-> <<>>]

\* Lines 204-225.
InitialAnalysis(dir) ==
    [dir |-> dir,
     detected |-> FALSE,
     type |-> "unknown",
     name |-> Str(Basename(dir)),
     description |-> Str(<<>>),
     version |-> Str(<<>>),
     author |-> Str(<<>>),
     license |-> Str(<<>>),
     repository |-> Str(<<>>),
     homepage |-> Str(<<>>),
     keywords |-> Arr(<<>>),
     dependencies |-> <<>>,
     devDependencies |-> <<>>,
     scripts |-> EmptyObj,
     features |-> <<>>,
     structure |-> NoStructure,
     installCommand |-> <<>>,
     runCommand |-> <<>>,
     buildCommand |-> <<>>,
     testCommand |-> <<>>]

\* v?.key
OptProp(v, key) == IF IsNullish(v) THEN Undef ELSE Prop(v, key)

\* Object.keys(v) of an object, an array, a number or a boolean.
ObjKeys(v) ==
    IF v.t \in {"obj", "arr"} THEN [i \in 1..Len(v.p) |-> v.p[i][1]] ELSE <<>>

\* What a try block leaves behind: the record, whether the block ended in
\* an exception, and how many times it assigned analysis.type.
Outcome(a, t, w) == [a |-> a, threw |-> t, writes |-> w]

\* Lines 231-255, the try block of the Node probe.
NodeBody(a, f) ==
    IF ~f.readable \/ ~f.parses THEN Outcome(a, TRUE, 0)
    ELSE
    LET pkg == f.v
        a1 == [a EXCEPT !.detected = TRUE, !.type = "node"]
    IN  IF IsNullish(pkg) THEN Outcome(a1, TRUE, 1)
        ELSE
        LET name == OrElse(Prop(pkg, <<"name">>), a.name)
            au == Prop(pkg, <<"author">>)
            repo == Prop(pkg, <<"repository">>)
            bin == Prop(pkg, <<"bin">>)
            main == Prop(pkg, <<"main">>)
            scripts == Prop(pkg, <<"scripts">>)
            binName == IF bin.t = "str" THEN name
                       ELSE IF ObjKeys(bin) = <<>> THEN Undef
                       ELSE Str(ObjKeys(bin)[1])
        IN  Outcome(
              [a1 EXCEPT
                 !.name = name,
                 !.description = OrElse(Prop(pkg, <<"description">>), Str(<<>>)),
                 !.version = OrElse(Prop(pkg, <<"version">>), Str(<<>>)),
                 !.author = IF au.t = "str" THEN au
                            ELSE OrElse(OptProp(au, <<"name">>), Str(<<>>)),
                 !.license = OrElse(Prop(pkg, <<"license">>), Str(<<>>)),
                 !.repository = IF repo.t = "str" THEN repo
                                ELSE OrElse(OptProp(repo, <<"url">>), Str(<<>>)),
                 !.homepage = OrElse(Prop(pkg, <<"homepage">>), Str(<<>>)),
                 !.keywords = OrElse(Prop(pkg, <<"keywords">>), Arr(<<>>)),
                 !.dependencies =
                     ObjKeys(OrElse(Prop(pkg, <<"dependencies">>), EmptyObj)),
                 !.devDependencies =
                     ObjKeys(OrElse(Prop(pkg, <<"devDependencies">>), EmptyObj)),
                 !.scripts = OrElse(scripts, EmptyObj),
                 !.installCommand = <<"npm", " ", "install">>,
                 !.runCommand =
                     IF Truthy(bin) THEN <<"npx", " ">> \o ToStr(binName)
                     ELSE IF Truthy(main) THEN <<"node", " ">> \o ToStr(main)
                     ELSE a1.runCommand,
                 !.buildCommand =
                     IF Truthy(OptProp(scripts, <<"build">>))
                     THEN <<"npm", " ", "run", " ", "build">>
                     ELSE a1.buildCommand,
                 !.testCommand =
                     IF Truthy(OptProp(scripts, <<"test">>))
                     THEN <<"npm", " ", "test">>
                     ELSE a1.testCommand],
              FALSE, 1)

\* Array.isArray(v) ? v[0] : v
FirstIfArray(v) ==
    IF v.t = "arr" THEN (IF v.p = <<>> THEN Undef ELSE v.p[1][2]) ELSE v

\* Lines 268-287, the try block of the Python probe on pyproject.toml.
PythonBody(a, f) ==
    IF ~f.readable THEN Outcome(a, TRUE, 0)
    ELSE
    LET parsed == parseToml(f.content)
    IN  IF parsed.threw THEN Outcome(a, TRUE, 0)
        ELSE
        LET toml == parsed.value
            tool == Prop(toml, <<"tool">>)
            project == OrElse(OrElse(Prop(toml, <<"project">>),
                                     OptProp(tool, <<"poetry">>)), EmptyObj)
            authors == Prop(project, <<"authors">>)
            a2 == [a EXCEPT
                     !.detected = TRUE,
                     !.type = "python",
                     !.name = OrElse(Prop(project, <<"name">>), a.name),
                     !.description = OrElse(Prop(project, <<"description">>), Str(<<>>)),
                     !.version = OrElse(Prop(project, <<"version">>), Str(<<>>)),
                     !.license = OrElse(Prop(project, <<"license">>), Str(<<>>)),
                     !.keywords = OrElse(Prop(project, <<"keywords">>), Arr(<<>>)),
                     !.author = IF Truthy(authors) THEN FirstIfArray(authors)
                                ELSE a.author,
                     !.installCommand = <<"pip", " ", "install", " ", ".">>]
        IN  \* analysis.name.replace is a function of strings only
            IF a2.name.t # "str" THEN Outcome(a2, TRUE, 1)
            ELSE Outcome(
                   [a2 EXCEPT
                      !.runCommand = <<"python", " ", "-m", " ">>
                                         \o ReplaceAll(a2.name.s, "-", "_"),
                      !.testCommand = IF Truthy(OptProp(tool, <<"pytest">>))
                                      THEN <<"pytest">>
                                      ELSE a2.testCommand],
                   FALSE, 1)

\* Lines 290-292, the Python probe on setup.py / requirements.txt.
PythonFallback(a, hasSetupPy) ==
    Outcome([a EXCEPT
               !.detected = TRUE,
               !.type = "python",
               !.installCommand =
                   IF hasSetupPy THEN <<"pip", " ", "install", " ", ".">>
                   ELSE <<"pip", " ", "install", " ", "-r", " ",
                          "requirements", ".", "txt">>],
            FALSE, 1)

IsSpace(c) == c \in {" ", "\t", "\n"}

\* content.match(/module\s+(.+)/): the text captured by the group at the
\* leftmost match, as <<text>>, or <<>> when nothing matches.  \s+ takes
\* the longest run of white space that still leaves the group a first
\* character other than a line feed; the group runs to the end of the line.
ModuleMatch(content) ==
    LET n == Len(content)
        starts(i) == {k \in (i + 2)..n :
                        /\ \A m \in (i + 1)..(k - 1) : IsSpace(content[m])
                        /\ content[k] # "\n"}
        cands == {i \in 1..n : content[i] = "module" /\ starts(i) # {}}
    IN  IF cands = {} THEN <<>>
        ELSE LET i == CHOOSE c \in cands : \A d \in cands : c <= d
                 k == CHOOSE c \in starts(i) : \A d \in starts(i) : d <= c
                 eols == {e \in k..n : content[e] = "\n"}
                 e == IF eols = {} THEN n + 1
                      ELSE CHOOSE c \in eols : \A d \in eols : c <= d
             IN  <<SubSeq(content, k, e - 1)>>

\* Lines 299-314, the try block of the Go probe.
GoBody(a, f) ==
    IF ~f.readable THEN Outcome(a, TRUE, 0)
    ELSE
    LET moduleMatch == ModuleMatch(f.content)
        a1 == [a EXCEPT !.detected = TRUE, !.type = "go"]
        modulePath == Trim(moduleMatch[1])
        parts == Split(modulePath, "/")
        a2 == IF moduleMatch = <<>> THEN a1
              ELSE [a1 EXCEPT
                      !.name = Str(parts[Len(parts)]),
                      !.repository =
                          IF StartsWith(modulePath, "github.com")
                          THEN Str(<<"https", ":", "/", "/">> \o modulePath)
                          ELSE Str(<<>>)]
    IN  Outcome([a2 EXCEPT
                   !.installCommand = <<"go", " ", "install">>,
                   !.runCommand = <<"go", " ", "run", " ", ".">>,
                   !.buildCommand = <<"go", " ", "build">>,
                   !.testCommand = <<"go", " ", "test", " ", ".", "/", ".", ".", ".">>],
                FALSE, 1)

\* Lines 322-344, the try block of the Rust probe.
RustBody(a, f) ==
    IF ~f.readable THEN Outcome(a, TRUE, 0)
    ELSE
    LET parsed == parseToml(f.content)
    IN  IF parsed.threw THEN Outcome(a, TRUE, 0)
        ELSE
        LET pkg == OrElse(Prop(parsed.value, <<"package">>), EmptyObj)
            authors == Prop(pkg, <<"authors">>)
        IN  Outcome(
              [a EXCEPT
                 !.detected = TRUE,
                 !.type = "rust",
                 !.name = OrElse(Prop(pkg, <<"name">>), a.name),
                 !.description = OrElse(Prop(pkg, <<"description">>), Str(<<>>)),
                 !.version = OrElse(Prop(pkg, <<"version">>), Str(<<>>)),
                 !.license = OrElse(Prop(pkg, <<"license">>), Str(<<>>)),
                 !.repository = OrElse(Prop(pkg, <<"repository">>), Str(<<>>)),
                 !.homepage = OrElse(Prop(pkg, <<"homepage">>), Str(<<>>)),
                 !.keywords = OrElse(Prop(pkg, <<"keywords">>), Arr(<<>>)),
                 !.author = IF Truthy(authors) THEN FirstIfArray(authors)
                            ELSE a.author,
                 !.installCommand = <<"cargo", " ", "install", " ", "-", "-", "path", " ", ".">>,
                 !.runCommand = <<"cargo", " ", "run">>,
                 !.buildCommand = <<"cargo", " ", "build", " ", "-", "-", "release">>,
                 !.testCommand = <<"cargo", " ", "test">>],
              FALSE, 1)

\* A variant of the try block without its catch clause: an exception of
\* the body leaves analyzeProject.
TryWithoutCatch(body) ==
    [a |-> body.a, threw |-> body.threw, writes |-> body.writes, escaped |-> body.threw]

\* try { body } catch (e) {}: an exception of the body ends the probe and
\* goes no further.
TryCatch(body) ==
    [a |-> body.a, threw |-> body.threw, writes |-> body.writes, escaped |-> FALSE]

\* A probe whose manifest does not exist does nothing.
Skipped(a) == [a |-> a, threw |-> FALSE, writes |-> 0, escaped |-> FALSE]

\* Lines 229-259.
NodeResult(a, fs) ==
    IF fs.packageJson.exists THEN TryCatch(NodeBody(a, fs.packageJson)) ELSE Skipped(a)

\* A variant of the Python probe whose fallback branch does not look for
\* setup.py or requirements.txt.
PythonResultUnguarded(a, fs) ==
    IF fs.pyproject.exists THEN TryCatch(PythonBody(a, fs.pyproject))
    ELSE [a |-> PythonFallback(a, fs.setupPy).a, threw |-> FALSE,
          writes |-> PythonFallback(a, fs.setupPy).writes, escaped |-> FALSE]

\* A variant of the Python probe that runs the fallback branch after the
\* pyproject.toml branch instead of in its place.
PythonResultBothBranches(a, fs) ==
    LET first == IF fs.pyproject.exists THEN TryCatch(PythonBody(a, fs.pyproject))
                 ELSE Skipped(a)
        second == IF fs.setupPy \/ fs.requirements
                  THEN PythonFallback(first.a, fs.setupPy)
                  ELSE Outcome(first.a, FALSE, 0)
    IN  [a |-> second.a, threw |-> first.threw,
         writes |-> first.writes + second.writes, escaped |-> FALSE]

\* Lines 266-293.
PythonResult(a, fs) ==
    IF fs.pyproject.exists THEN TryCatch(PythonBody(a, fs.pyproject))
    ELSE IF fs.setupPy \/ fs.requirements
    THEN [a |-> PythonFallback(a, fs.setupPy).a, threw |-> FALSE,
          writes |-> PythonFallback(a, fs.setupPy).writes, escaped |-> FALSE]
    ELSE Skipped(a)

\* Lines 297-316.
GoResult(a, fs) ==
    IF fs.goMod.exists THEN TryCatch(GoBody(a, fs.goMod)) ELSE Skipped(a)

\* A variant of the Rust probe that leaves alone a record an earlier probe
\* has filled in.
RustResultIfUndetected(a, fs) ==
    IF fs.cargo.exists /\ ~a.detected THEN TryCatch(RustBody(a, fs.cargo))
    ELSE Skipped(a)

\* Lines 320-346.
RustResult(a, fs) ==
    IF fs.cargo.exists THEN TryCatch(RustBody(a, fs.cargo)) ELSE Skipped(a)

---------------------------------------------------------------------------
(* analyzeStructure, extractFeatures, detectScripts *)

\* toLowerCase on the runs of letters the directory listings hold.
LowerSym(c) ==
    CASE c = "Bin" -> "bin"
      [] c = "README" -> "readme"
      [] c = "Makefile" -> "makefile"
      [] c = "Tests" -> "tests"
      [] c = "Docs" -> "docs"
      [] OTHER -> c

ToLower(s) == [i \in 1..Len(s) |-> LowerSym(s[i])]

EndsWithMd(s) == Len(s) >= 2 /\ SubSeq(s, Len(s) - 1, Len(s)) = <<".", "md">>

\* Lines 84-117, the body of the loop over the directory's entries.
ScanEntry(st, e) ==
    IF StartsWith(e.name, ".")
    THEN IF e.name = <<".", "github">>
            \/ e.name = <<".", "gitlab", "-", "ci", ".", "yml">>
         THEN [st EXCEPT !.hasCI = TRUE]
         ELSE st
    ELSE IF e.isDir
    THEN LET lower == ToLower(e.name)
             st1 == [st EXCEPT !.directories = Append(@, e.name)]
         IN  IF lower \in {<<"test">>, <<"tests">>, <<"_", "_", "tests", "_", "_">>, <<"spec">>}
             THEN [st1 EXCEPT !.hasTests = TRUE]
             ELSE IF lower \in {<<"docs">>, <<"documentation">>}
             THEN [st1 EXCEPT !.hasDocs = TRUE]
             ELSE IF lower \in {<<"examples">>, <<"example">>}
             THEN [st1 EXCEPT !.hasExamples = TRUE]
             ELSE IF lower \in {<<"src">>, <<"source">>}
             THEN [st1 EXCEPT !.hasSrc = TRUE]
             ELSE IF lower = <<"lib">> THEN [st1 EXCEPT !.hasLib = TRUE]
             ELSE IF lower = <<"bin">> THEN [st1 EXCEPT !.hasBin = TRUE]
             ELSE IF lower = <<"config">> THEN [st1 EXCEPT !.hasConfig = TRUE]
             ELSE st1
    ELSE LET lower == ToLower(e.name)
         IN  IF EndsWithMd(lower) \/ lower = <<"makefile">> \/ lower = <<"dockerfile">>
             THEN [st EXCEPT !.mainFiles = Append(@, e.name)]
             ELSE st

RECURSIVE ScanEntries(_, _)
ScanEntries(st, es) ==
    IF es = <<>> THEN st ELSE ScanEntries(ScanEntry(st, Head(es)), Tail(es))

\* Lines 66-124; a failing readdirSync leaves the defaults.
analyzeStructure(fs) ==
    IF ~fs.listing.ok THEN NoStructure
    ELSE ScanEntries(NoStructure, fs.listing.entries)

\* Lines 153-159: the phrases the package.json adds; JSON.parse or the
\* first read of a property of null raises and the catch adds nothing.
NodeFeatures(f) ==
    IF ~f.exists \/ ~f.readable \/ ~f.parses \/ IsNullish(f.v) THEN <<>>
    ELSE LET scripts == Prop(f.v, <<"scripts">>)
         IN  (IF Truthy(Prop(f.v, <<"bin">>)) THEN <<"Executable CLI tool">> ELSE <<>>)
             \o (IF Truthy(Prop(f.v, <<"types">>)) \/ Truthy(Prop(f.v, <<"typings">>))
                 THEN <<"TypeScript definitions">> ELSE <<>>)
             \o (IF Truthy(OptProp(scripts, <<"test">>))
                 THEN <<"Test scripts configured">> ELSE <<>>)
             \o (IF Truthy(OptProp(scripts, <<"build">>))
                 THEN <<"Build system configured">> ELSE <<>>)

\* A variant of extractFeatures without the test of line 152: the phrases
\* of package.json are added whatever the type.
extractFeaturesAnyType(fs, projectType) ==
    LET structure == analyzeStructure(fs)
    IN  (IF structure.hasTests THEN <<"Comprehensive test suite">> ELSE <<>>)
        \o (IF structure.hasDocs THEN <<"Detailed documentation">> ELSE <<>>)
        \o (IF structure.hasExamples THEN <<"Example code included">> ELSE <<>>)
        \o (IF structure.hasCI THEN <<"CI/CD integration">> ELSE <<>>)
        \o (IF structure.hasBin THEN <<"CLI support">> ELSE <<>>)
        \o NodeFeatures(fs.packageJson)

\* Lines 129-163.
extractFeatures(fs, projectType) ==
    LET structure == analyzeStructure(fs)
    IN  (IF structure.hasTests THEN <<"Comprehensive test suite">> ELSE <<>>)
        \o (IF structure.hasDocs THEN <<"Detailed documentation">> ELSE <<>>)
        \o (IF structure.hasExamples THEN <<"Example code included">> ELSE <<>>)
        \o (IF structure.hasCI THEN <<"CI/CD integration">> ELSE <<>>)
        \o (IF structure.hasBin THEN <<"CLI support">> ELSE <<>>)
        \o (IF projectType = "node" THEN NodeFeatures(fs.packageJson) ELSE <<>>)

\* { ...a, ...b } on property lists: b's value wins on a shared key, which
\* keeps the place it has in a.
MergeProps(a, b) ==
    LET keysA == {a[i][1] : i \in 1..Len(a)}
        over == [i \in 1..Len(a) |->
                   IF Lookup(b, a[i][1]) # Undef THEN <<a[i][1], Lookup(b, a[i][1])>>
                   ELSE a[i]]
    IN  over \o SelectSeq(b, LAMBDA kv : kv[1] \notin keysA)

IsNameSym(c) ==
    c \notin ({" ", "\t", "\n", "[", "]", ".", "=", "#", "/", "\"", "'", ":"} \cup Digits)

\* /^([a-zA-Z_-]+):/gm on one line of the Makefile: the target, or <<>>.
MakeTarget(line) ==
    LET i == IndexOf(line, ":")
    IN  IF i > 1 /\ \A j \in 1..(i - 1) : IsNameSym(line[j])
        THEN SubSeq(line, 1, i - 1)
        ELSE <<>>

RECURSIVE MakeTargets(_)
MakeTargets(lines) ==
    IF lines = <<>> THEN <<>>
    ELSE LET t == MakeTarget(Head(lines))
         IN  (IF t = <<>> THEN <<>>
              ELSE << <<(<<"make", " ">> \o t), Str(<<"Makefile target">>)>> >>)
             \o MakeTargets(Tail(lines))

\* The Makefile of the directory: there when the listing names it.
Makefile(fs) ==
    IF \E i \in 1..Len(fs.listing.entries) :
         fs.listing.entries[i].name = <<"Makefile">> /\ ~fs.listing.entries[i].isDir
    THEN TextFile(MakefileText)
    ELSE AbsentFile

\* Lines 168-198, as a property list.
detectScripts(fs, projectType) ==
    LET f == fs.packageJson
        pkgScripts ==
            IF projectType = "node" /\ f.exists /\ f.readable /\ f.parses
               /\ ~IsNullish(f.v) /\ Truthy(Prop(f.v, <<"scripts">>))
            THEN Prop(f.v, <<"scripts">>).p
            ELSE <<>>
        mk == Makefile(fs)
        targets == IF mk.exists /\ mk.readable
                   THEN MakeTargets(Split(mk.content, "\n"))
                   ELSE <<>>
    IN  MergeProps(pkgScripts, targets)

---------------------------------------------------------------------------
(* The generator.  A document is a sequence of lines, a line a string; a   *)
(* literal of the source is one symbol, with <fence> for its three         *)
(* backquotes and <bq> for one.                                            *)

IsWordSym(c) == (IsNameSym(c) /\ c # "-") \/ c \in Digits

\* toUpperCase / toLowerCase on the first letter of a run of letters.
CapSym(c) ==
    CASE c = "my" -> "My" [] c = "pkg" -> "Pkg" [] c = "cli" -> "Cli"
      [] c = "tool" -> "Tool" [] c = "lib" -> "Lib" [] c = "poet" -> "Poet"
      [] c = "crate" -> "Crate" [] c = "widget" -> "Widget"
      [] c = "mymod" -> "Mymod" [] c = "app" -> "App"
      [] OTHER -> c

\* Lines 369-374; called on a falsy value or a string.
formatTitle(name) ==
    IF ~Truthy(name) THEN <<"Project">>
    ELSE LET spaced == [i \in 1..Len(name.s) |->
                          IF name.s[i] \in {"-", "_"} THEN " " ELSE name.s[i]]
         IN  [i \in 1..Len(spaced) |->
                IF IsWordSym(spaced[i]) /\ (i = 1 \/ ~IsWordSym(spaced[i - 1]))
                THEN CapSym(spaced[i]) ELSE spaced[i]]

\* Lines 376-380, on a string: a "-" or "_" and the character after it
\* become that character in upper case; the first character is lowered.
RECURSIVE CamelTail(_)
CamelTail(s) ==
    IF s = <<>> THEN <<>>
    ELSE IF Head(s) \in {"-", "_"} /\ Len(s) >= 2
    THEN <<CapSym(s[2])>> \o CamelTail(SubSeq(s, 3, Len(s)))
    ELSE <<Head(s)>> \o CamelTail(Tail(s))

toCamelCase(s) ==
    LET c == CamelTail(s)
    IN  IF c = <<>> THEN c ELSE <<LowerSym(c[1])>> \o Tail(c)

\* encodeURIComponent, symbol by symbol.
EncodeSym(c) ==
    CASE c = " " -> "%20" [] c = "/" -> "%2F" [] c = ":" -> "%3A"
      [] c = "=" -> "%3D" [] c = "[" -> "%5B" [] c = "]" -> "%5D"
      [] c = "\"" -> "%22" [] c = "#" -> "%23"
      [] OTHER -> c

EncodeURIComponent(s) == [i \in 1..Len(s) |-> EncodeSym(s[i])]

\* repository.match(/github\.com[\/:]([^\/]+\/[^\/\.]+)/): the group of the
\* leftmost match as <<text>>, or <<>>.
RepoMatch(s) ==
    LET n == Len(s)
        slash(i) == {j \in (i + 3)..n :
                       s[j] = "/" /\ \A m \in (i + 2)..(j - 1) : s[m] # "/"}
        ok(i) == /\ s[i] = "github.com"
                 /\ i + 1 <= n /\ s[i + 1] \in {"/", ":"}
                 /\ \E j \in slash(i) : j + 1 <= n /\ s[j + 1] \notin {"/", "."}
        cands == {i \in 1..n : ok(i)}
    IN  IF cands = {} THEN <<>>
        ELSE LET i == CHOOSE c \in cands : \A d \in cands : c <= d
                 j == CHOOSE c \in slash(i) : TRUE
                 stops == {k \in (j + 1)..n : s[k] \in {"/", "."}}
                 e == IF stops = {} THEN n + 1
                      ELSE CHOOSE c \in stops : \A d \in stops : c <= d
             IN  <<SubSeq(s, i + 2, e - 1)>>

\* Lines 11-48, called with analysis.name a string or falsy.  raised: a
\* method of strings was called on a value that has none.
generateBadges(a) ==
    LET n == a.name.s
        registry ==
            IF a.type = "node" /\ Truthy(a.name) /\ ~StartsWith(n, ".")
            THEN << <<"[![npm version](https://img.shields.io/npm/v/">> \o n
                       \o <<".svg)](https://www.npmjs.com/package/">> \o n \o <<")">>,
                    <<"[![npm downloads](https://img.shields.io/npm/dm/">> \o n
                       \o <<".svg)](https://www.npmjs.com/package/">> \o n \o <<")">> >>
            ELSE IF a.type = "rust" /\ Truthy(a.name)
            THEN << <<"[![Crates.io](https://img.shields.io/crates/v/">> \o n
                       \o <<".svg)](https://crates.io/crates/">> \o n \o <<")">>,
                    <<"[![Crates.io](https://img.shields.io/crates/d/">> \o n
                       \o <<".svg)](https://crates.io/crates/">> \o n \o <<")">> >>
            ELSE IF a.type = "python" /\ Truthy(a.name)
            THEN << <<"[![PyPI version](https://img.shields.io/pypi/v/">> \o n
                       \o <<".svg)](https://pypi.org/project/">> \o n \o <<"/)">>,
                    <<"[![PyPI downloads](https://img.shields.io/pypi/dm/">> \o n
                       \o <<".svg)](https://pypi.org/project/">> \o n \o <<"/)">> >>
            ELSE <<>>
        licenseRaises == Truthy(a.license) /\ a.license.t # "str"
        license ==
            IF Truthy(a.license)
            THEN << <<"[![License: ">> \o a.license.s
                       \o <<"](https://img.shields.io/badge/License-">>
                       \o EncodeURIComponent(a.license.s) \o <<"-blue.svg)](LICENSE)">> >>
            ELSE <<>>
        repo == a.repository
        \* includes exists on strings and arrays, match on strings only
        repoRaises ==
            /\ Truthy(repo)
            /\ \/ repo.t \notin {"str", "arr"}
               \/ repo.t = "arr"
                  /\ \E i \in 1..Len(repo.p) : repo.p[i][2] = Str(<<"github.com">>)
        m == IF repo.t = "str" /\ Includes(repo.s, "github.com")
             THEN RepoMatch(repo.s) ELSE <<>>
        stars ==
            IF m # <<>>
            THEN << <<"[![GitHub stars](https://img.shields.io/github/stars/">> \o m[1]
                       \o <<".svg?style=social)](https://github.com/">> \o m[1] \o <<")">> >>
            ELSE <<>>
    IN  IF licenseRaises \/ repoRaises THEN [raised |-> TRUE, badges |-> <<>>]
        ELSE [raised |-> FALSE, badges |-> registry \o license \o stars]

\* Lines 230-263.
generateFeatures(a) ==
    LET features ==
            IF a.features # <<>> THEN a.features
            ELSE CASE a.type = "node" ->
                        <<"Easy to use API", "Zero/minimal dependencies", "Well documented">>
                   [] a.type = "python" ->
                        <<"Pythonic API design", "Type hints support", "Well documented">>
                   [] a.type = "go" ->
                        <<"Fast and efficient", "Simple API", "Well documented">>
                   [] a.type = "rust" ->
                        <<"Memory safe", "High performance", "Well documented">>
                   [] OTHER -> <<"Easy to use", "Well documented">>
    IN  [i \in 1..Len(features) |-> <<"- ", features[i]>>]

\* analysis.runCommand?.includes('npx')
MentionsNpx(a) == Includes(a.runCommand, "npx")

\* Lines 53-121; analysis.name is a string.
generateInstallation(a) ==
    LET n == ToStr(a.name)
    IN  CASE a.type = "node" ->
               << <<"<fence>bash">>, <<"# Using npm">>, <<"npm install ">> \o n, <<>>,
                  <<"# Using yarn">>, <<"yarn add ">> \o n, <<>>,
                  <<"# Using pnpm">>, <<"pnpm add ">> \o n >>
               \o (IF (\E k \in {ObjKeys(a.scripts)[i] : i \in 1..Len(ObjKeys(a.scripts))} :
                         Includes(k, "bin"))
                      \/ MentionsNpx(a)
                   THEN << <<>>, <<"# Or run directly with npx">>, <<"npx ">> \o n >>
                   ELSE <<>>)
               \o << <<"<fence>">> >>
          [] a.type = "python" ->
               << <<"<fence>bash">>, <<"# Using pip">>, <<"pip install ">> \o n, <<>>,
                  <<"# Using poetry">>, <<"poetry add ">> \o n, <<"<fence>">> >>
          [] a.type = "go" ->
               << <<"<fence>bash">>,
                  <<"go install ">> \o ToStr(OrElse(a.repository, a.name)) \o <<"@latest">>,
                  <<"<fence>">> >>
          [] a.type = "rust" ->
               << <<"<fence>bash">>, <<"# Using cargo">>, <<"cargo install ">> \o n, <<>>,
                  <<"# Or add to Cargo.toml">>, <<"<fence>">>, <<>>, <<"<fence>toml">>,
                  <<"[dependencies]">>,
                  n \o <<" = \"">> \o ToStr(OrElse(a.version, Str(<<"*">>))) \o <<"\"">>,
                  <<"<fence>">> >>
          [] OTHER ->
               << <<"<fence>bash">>, <<"# Clone the repository">>,
                  <<"git clone ">>
                     \o ToStr(OrElse(a.repository,
                                     Str(<<"https://github.com/username/">> \o n))),
                  <<"cd ">> \o n >>
               \o (IF a.installCommand # <<>>
                   THEN << <<>>, <<"# Install dependencies">>, a.installCommand >>
                   ELSE <<>>)
               \o << <<"<fence>">> >>

\* Lines 126-189; analysis.name is a string.
generateUsage(a) ==
    LET n == a.name.s
        under == ReplaceAll(n, "-", "_")
    IN  CASE a.type = "node" ->
               (IF MentionsNpx(a)
                THEN << <<"<fence>bash">>, a.runCommand, <<"<fence>">>, <<>>,
                        <<"Or use programmatically:">>, <<>> >>
                ELSE <<>>)
               \o << <<"<fence>javascript">>,
                     <<"const ">> \o toCamelCase(n) \o <<" = require('">> \o n \o <<"');">>,
                     <<>>, <<"// Example usage">>,
                     <<"// ">> \o toCamelCase(n) \o <<".doSomething();">>,
                     <<"<fence>">> >>
          [] a.type = "python" ->
               << <<"<fence>python">>, <<"import ">> \o under, <<>>, <<"# Example usage">>,
                  <<"# ">> \o under \o <<".do_something()">>, <<"<fence>">> >>
          [] a.type = "go" ->
               << <<"<fence>go">>,
                  <<"import \"">> \o ToStr(OrElse(a.repository, a.name)) \o <<"\"">>,
                  <<>>, <<"func main() {">>, <<"    // Example usage">>, <<"}">>,
                  <<"<fence>">> >>
          [] a.type = "rust" ->
               << <<"<fence>rust">>, <<"use ">> \o under \o <<";">>, <<>>,
                  <<"fn main() {">>, <<"    // Example usage">>, <<"}">>, <<"<fence>">> >>
          [] OTHER ->
               IF a.runCommand # <<>>
               THEN << <<"<fence>bash">>, a.runCommand, <<"<fence>">> >>
               ELSE << <<"<fence>bash">>, <<"# Add usage examples here">>, <<"<fence>">> >>

\* Lines 382-392, for the names generateApi passes: each has a description.
describeScript(name) ==
    CASE name = <<"test">> -> <<"Run tests">>
      [] name = <<"build">> -> <<"Build the project">>
      [] OTHER -> <<"Start the application">>

\* A variant of generateApi without the test of line 205: a row for every
\* script.
generateApiEveryScript(a) ==
    LET keys == ObjKeys(a.scripts)
    IN  << <<"### Available Commands">>, <<>> >>
        \o (IF a.type = "node" /\ keys # <<>>
            THEN << <<"| Command | Description |">>, <<"|---------|-------------|">> >>
                 \o [i \in 1..Len(keys) |->
                       <<"| <bq>npm run ">> \o keys[i] \o <<"<bq> | ">>
                          \o describeScript(keys[i]) \o <<" |">>]
                 \o << <<>> >>
            ELSE <<>>)

\* Lines 194-225.
generateApi(a) ==
    LET keys == ObjKeys(a.scripts)
        shown == SelectSeq(keys,
                           LAMBDA k : k \in {<<"test">>, <<"build">>, <<"start">>})
        table ==
            IF a.type = "node" /\ keys # <<>>
            THEN << <<"| Command | Description |">>, <<"|---------|-------------|">> >>
                 \o [i \in 1..Len(shown) |->
                       <<"| <bq>npm run ">> \o shown[i] \o <<"<bq> | ">>
                          \o describeScript(shown[i]) \o <<" |">>]
                 \o << <<>> >>
            ELSE <<>>
        cli ==
            IF MentionsNpx(a) \/ a.structure.hasBin
            THEN << <<"### CLI Options">>, <<>>, <<"<fence>">>,
                    ToStr(a.name) \o <<" [options]">>, <<>>, <<"Options:">>,
                    <<"  -h, --help     Show help message">>,
                    <<"  -v, --version  Show version number">>, <<"<fence>">> >>
            ELSE <<>>
    IN  << <<"### Available Commands">>, <<>> >> \o table \o cli

Raised == [status |-> "raised", lines |-> <<>>]

\* parts.join(' ')
RECURSIVE JoinSpace(_)
JoinSpace(parts) ==
    IF parts = <<>> THEN <<>>
    ELSE IF Len(parts) = 1 THEN parts[1]
    ELSE parts[1] \o <<" ">> \o JoinSpace(Tail(parts))

\* Lines 283-365.  formatTitle and generateBadges call methods of strings
\* on name, license and repository; what follows them only interpolates.
generateReadme(a) ==
    IF Truthy(a.name) /\ a.name.t # "str" THEN Raised
    ELSE
    LET b == generateBadges(a)
    IN  IF b.raised THEN Raised
        ELSE
        [status |-> "ok",
         lines |->
           << <<"# ">> \o formatTitle(a.name), <<>> >>
           \o (IF b.badges # <<>> THEN <<JoinSpace(b.badges), <<>> >> ELSE <<>>)
           \o << (IF Truthy(a.description) THEN <<"> ">> \o ToStr(a.description)
                  ELSE <<"> A ", a.type, " project">>),
                 <<>>,
                 <<"## Table of Contents">>, <<>>,
                 <<"- [Features](#features)">>, <<"- [Installation](#installation)">>,
                 <<"- [Usage](#usage)">>, <<"- [API](#api)">>,
                 <<"- [Contributing](#contributing)">>, <<"- [License](#license)">>,
                 <<>>,
                 <<"## Features">>, <<>> >>
           \o generateFeatures(a)
           \o << <<>>, <<"## Installation">>, <<>> >>
           \o generateInstallation(a)
           \o << <<>>, <<"## Usage">>, <<>> >>
           \o generateUsage(a)
           \o << <<>>, <<"## API">>, <<>> >>
           \o generateApi(a)
           \o << <<>>, <<"## Contributing">>, <<>>, <<"generateContributing">>, <<>>,
                 <<"## License">>, <<>>,
                 (IF Truthy(a.license)
                  THEN <<"This project is licensed under the ">> \o a.license.s
                       \o <<" License - see the [LICENSE](LICENSE) file for details.">>
                  ELSE <<"This project is licensed under the MIT License - see the [LICENSE](LICENSE) file for details.">>),
                 <<>> >>
           \o (IF Truthy(a.author)
               THEN << <<"---">>, <<>>, <<"Made with love by ">> \o ToStr(a.author) >>
               ELSE <<>>)]

---------------------------------------------------------------------------
(* analyzeProject followed by generateReadme, as the command line runs them *)

\* fsys is what the run has seen of the directory: its path from the
\* start, each file from the moment the run first looks for it.
Init ==
    /\ \E d \in DirPool :
         fsys = [dir |-> d,
                 packageJson |-> AbsentJson,
                 pyproject |-> AbsentFile,
                 setupPy |-> FALSE,
                 requirements |-> FALSE,
                 goMod |-> AbsentFile,
                 cargo |-> AbsentFile,
                 listing |-> Unlistable]
    /\ analysis = InitialAnalysis(fsys.dir)
    /\ pc = "node"
    /\ raised = FALSE
    /\ threw = {}
    /\ typeWrites = 0
    /\ readme = [status |-> "none", lines |-> <<>>]
    /\ tlines = <<>>
    /\ tst = IdleToml
    /\ proc = IdleCli

\* A probe has run on the directory fs: the record it leaves, and where
\* the run goes on.
Probed(fs, r, ecosystem, next) ==
    /\ fsys' = fs
    /\ analysis' = r.a
    /\ threw' = IF r.threw THEN threw \cup {ecosystem} ELSE threw
    /\ typeWrites' = typeWrites + r.writes
    /\ raised' = r.escaped
    /\ pc' = IF r.escaped THEN "raised" ELSE next
    /\ UNCHANGED <<readme, tomlVars, proc>>

NodeProbe ==
    /\ pc = "node"
    /\ \E f \in PackageJsonPool :
         LET fs == [fsys EXCEPT !.packageJson = f]
         IN  Probed(fs, NodeResult(analysis, fs), "node", "python")

PythonProbe ==
    /\ pc = "python"
    /\ \E f \in PyprojectPool, s \in BOOLEAN, q \in BOOLEAN :
         LET fs == [fsys EXCEPT !.pyproject = f, !.setupPy = s, !.requirements = q]
         IN  Probed(fs, PythonResult(analysis, fs), "python", "go")

GoProbe ==
    /\ pc = "go"
    /\ \E f \in GoModPool :
         LET fs == [fsys EXCEPT !.goMod = f]
         IN  Probed(fs, GoResult(analysis, fs), "go", "rust")

RustProbe ==
    /\ pc = "rust"
    /\ \E f \in CargoPool :
         LET fs == [fsys EXCEPT !.cargo = f]
         IN  Probed(fs, RustResult(analysis, fs), "rust", "finish")

\* The own properties a spread copies.
SpreadProps(v) == IF v.t \in {"obj", "arr"} THEN v.p ELSE <<>>

\* Lines 349-353.
Finish ==
    /\ pc = "finish"
    /\ \E l \in ListingPool :
         LET fs == [fsys EXCEPT !.listing = l]
         IN  /\ fsys' = fs
             /\ analysis' =
                  [analysis EXCEPT
                     !.structure = analyzeStructure(fs),
                     !.features = extractFeatures(fs, analysis.type),
                     !.scripts = Obj(MergeProps(SpreadProps(analysis.scripts),
                                                detectScripts(fs, analysis.type)))]
    /\ pc' = "done"
    /\ UNCHANGED <<raised, threw, typeWrites, readme, tomlVars, proc>>

\* A variant of line 231 without the copy: the generic features of lines
\* 234-260 are pushed onto analysis.features itself.
FeaturesPushedInPlace(a) ==
    IF a.features = <<>> THEN <<"Easy to use", "Well documented">> ELSE a.features

\* Line 231: generateFeatures works on a copy, [...analysis.features], so
\* analysis.features is after the call what it was before.
FeaturesAfterGenerate(a) == a.features

\* The record after generateReadme(analysis) has run on it: no other
\* statement of the generator assigns to the record or to a value in it.
RecordAfterGenerate(a) == [a EXCEPT !.features = FeaturesAfterGenerate(a)]

\* generateReadme(analysis) on the record analyzeProject returned.
Generate ==
    /\ pc = "done"
    /\ readme' = generateReadme(analysis)
    /\ analysis' = RecordAfterGenerate(analysis)
    /\ pc' = "generated"
    /\ UNCHANGED <<fsys, raised, threw, typeWrites, tomlVars, proc>>

\* generateReadme(analysis) a second time, on the same record.
GenerateAgain ==
    /\ pc = "generated"
    /\ readme' = [status |-> readme.status, lines |-> readme.lines,
                  again |-> generateReadme(analysis)]
    /\ analysis' = RecordAfterGenerate(analysis)
    /\ pc' = "regenerated"
    /\ UNCHANGED <<fsys, raised, threw, typeWrites, tomlVars, proc>>

Next ==
    \/ NodeProbe \/ PythonProbe \/ GoProbe \/ RustProbe \/ Finish
    \/ Generate \/ GenerateAgain

Spec == Init /\ [][Next]_vars

---------------------------------------------------------------------------
(* Properties of analyzeProject and generateReadme, stated over Spec. *)

Ecosystems == {"node", "python", "go", "rust"}

\* analyzeProject has returned.
Returned == pc \in {"done", "generated", "regenerated"}

\* The manifest of an ecosystem is in the directory.
ManifestPresent(fs, e) ==
    CASE e = "node" -> fs.packageJson.exists
      [] e = "python" -> fs.pyproject.exists \/ fs.setupPy \/ fs.requirements
      [] e = "go" -> fs.goMod.exists
      [] e = "rust" -> fs.cargo.exists

\* The probe of an ecosystem detects its manifest: the manifest is there
\* and is read and parsed without an error.
Detects(fs, e) ==
    CASE e = "node" ->
           fs.packageJson.exists /\ fs.packageJson.readable /\ fs.packageJson.parses
      [] e = "python" ->
           IF fs.pyproject.exists
           THEN fs.pyproject.readable /\ ~parseToml(fs.pyproject.content).threw
           ELSE fs.setupPy \/ fs.requirements
      [] e = "go" -> fs.goMod.exists /\ fs.goMod.readable
      [] e = "rust" ->
           fs.cargo.exists /\ fs.cargo.readable /\ ~parseToml(fs.cargo.content).threw

\* The ecosystem of the last probe, in the order Node, Python, Go, Rust,
\* that detects its manifest.
LastDetected(fs) ==
    IF Detects(fs, "rust") THEN "rust"
    ELSE IF Detects(fs, "go") THEN "go"
    ELSE IF Detects(fs, "python") THEN "python"
    ELSE IF Detects(fs, "node") THEN "node"
    ELSE "unknown"

\* C1: when manifests of several ecosystems are in the directory, the type
\* analyzeProject returns is that of the last probe, in the order Node,
\* Python, Go, Rust, that detects its manifest; with go.mod and Cargo.toml
\* both detected the type is rust.
C1_LastDetectedWins ==
    Returned =>
      /\ analysis.type = LastDetected(fsys)
      /\ (Detects(fsys, "go") /\ Detects(fsys, "rust") => analysis.type = "rust")

C1_GoAndCargoGiveRust ==
    /\ pc = "done"
    /\ Detects(fsys, "node")
    /\ Detects(fsys, "go")
    /\ Detects(fsys, "rust")
    /\ analysis.type = "rust"

\* C2: when the directory holds none of package.json, pyproject.toml,
\* setup.py, requirements.txt, go.mod and Cargo.toml, analyzeProject
\* returns detected = false, type = unknown and the base name of the
\* directory as the name.
C2_NoManifestUnknown ==
    (Returned /\ \A e \in Ecosystems : ~ManifestPresent(fsys, e)) =>
      /\ analysis.detected = FALSE
      /\ analysis.type = "unknown"
      /\ analysis.name = Str(Basename(fsys.dir))

C2_EmptyDirectoryAnalyzed ==
    /\ pc = "done"
    /\ \A e \in Ecosystems : ~ManifestPresent(fsys, e)
    /\ analysis.detected = FALSE
    /\ analysis.type = "unknown"
    /\ analysis.name = Str(<<"my", "-", "app">>)

\* C3: no exception leaves analyzeProject, whatever the manifests hold:
\* an error inside a probe is swallowed and the run goes on to return.
C3_NeverRaises == raised = FALSE /\ pc # "raised"

C3_AllProbesFailedYetReturned ==
    /\ pc = "done"
    /\ threw = Ecosystems
    /\ raised = FALSE

\* C4: a probe that ends in an error leaves the record as it was before
\* the probe started.
C4_FailedProbeLeavesRecord ==
    [][\A e \in Ecosystems :
          (e \in threw' /\ e \notin threw) => analysis' = analysis]_vars

\* C5: the name analyzeProject returns is a string and is not empty.
C5_NameNonEmptyString ==
    Returned => analysis.name.t = "str" /\ analysis.name.s # <<>>

\* C6: generateReadme returns a document, without raising, for every
\* record analyzeProject returns.
C6_GenerateTotal == pc = "generated" => readme.status = "ok"

\* C7 as stated: type is assigned at most once in a run of analyzeProject.
C7_TypeWrittenOnce == typeWrites <= 1

\* C7, amended: each probe assigns type at most once and only when a
\* manifest of its ecosystem is in the directory, so the number of
\* assignments in a run is at most the number of ecosystems with a manifest
\* present, and equals the number of probes that detect their manifest.
C7_TypeWrittenOncePerProbe ==
    /\ typeWrites <= Cardinality({e \in Ecosystems : ManifestPresent(fsys, e)})
    /\ Returned => typeWrites = Cardinality({e \in Ecosystems : Detects(fsys, e)})

C7_FourWrites == pc = "done" /\ typeWrites = 4

\* The programs the commands of an ecosystem start with.
Tools(type) ==
    CASE type = "node" -> {"npm", "npx", "node"}
      [] type = "python" -> {"pip", "python", "pytest"}
      [] type = "go" -> {"go"}
      [] type = "rust" -> {"cargo"}
      [] OTHER -> {}

\* C8: each of the install, run, build and test commands analyzeProject
\* returns is empty or a command of the ecosystem of the returned type,
\* also when manifests of several ecosystems are in the directory.
C8_CommandsOfReturnedType ==
    Returned =>
      \A cmd \in {analysis.installCommand, analysis.runCommand,
                  analysis.buildCommand, analysis.testCommand} :
         cmd = <<>> \/ Head(cmd) \in Tools(analysis.type)

---------------------------------------------------------------------------
(* Properties of parseToml, stated over SpecToml. *)

\* A line the loop neither skips nor matches against one of its two forms.
IsUnmatched(line) ==
    LET t == Trim(line)
    IN  ~IsSkipped(t) /\ ~IsSectionHeader(t) /\ ~IsKeyValue(t)

\* A line the loop reads as a key/value pair.
IsPairLine(line) ==
    LET t == Trim(line)
    IN  ~IsSkipped(t) /\ ~IsSectionHeader(t) /\ IsKeyValue(t)

\* The lines without the unmatched ones.
RECURSIVE WithoutUnmatched(_)
WithoutUnmatched(lines) ==
    IF lines = <<>> THEN <<>>
    ELSE IF IsUnmatched(Head(lines)) THEN WithoutUnmatched(Tail(lines))
    ELSE <<Head(lines)>> \o WithoutUnmatched(Tail(lines))

\* The dotted path of the most recent section header among the lines, the
\* root when there is none.
RECURSIVE HeaderPath(_)
HeaderPath(lines) ==
    IF lines = <<>> THEN <<>>
    ELSE LET t == Trim(lines[Len(lines)])
         IN  IF IsSectionHeader(t) THEN Split(SectionName(t), ".")
             ELSE HeaderPath(SubSeq(lines, 1, Len(lines) - 1))

\* The path q is below a mapping that a header opened at a prefix of the
\* section path.
OpenedAbove(tree, section, q) ==
    \E i \in 1..Len(section) :
       LET pre == SubSeq(section, 1, i)
       IN  /\ pre \in DOMAIN tree
           /\ tree[pre].t = "obj"
           /\ IsPrefix(pre, q)
           /\ q # pre

\* C9: parseToml raises no error on any sequence of lines, and a line that
\* matches neither the section-header form nor the key/value form leaves
\* the result unchanged: the result is that of the input without such lines.
C9_ParseTomlNeverRaises ==
    /\ tst.status # "threw"
    /\ tst.tree = TomlFold(TomlStart, WithoutUnmatched(tlines)).tree

\* C10: the pair of a key/value line is stored in the mapping at the dotted
\* path of the most recent section header before it (the root when there is
\* none), and a section header whose path, or a prefix of it, was opened
\* before keeps every key stored in the mapping opened there.
C10_PairsStoredUnderHeader ==
    LET n == Len(tlines)
    IN  n > 0 =>
          LET last == tlines[n]
              before == TomlFold(TomlStart, SubSeq(tlines, 1, n - 1)).tree
          IN  /\ IsPairLine(last) =>
                    /\ tst.status # "threw"
                    /\ TreeGet(tst.tree,
                               Append(HeaderPath(tlines), KvKey(Trim(last))))
                         = CoerceValue(KvRaw(Trim(last)))
              /\ IsSectionHeader(Trim(last)) =>
                    \A q \in DOMAIN before :
                       OpenedAbove(before, HeaderPath(tlines), q)
                          => TreeGet(tst.tree, q) = before[q]

---------------------------------------------------------------------------
(* analyzeStructure, child by child *)

MaxEntries == 3

\* The children readdirSync lists: directories of every flag's set, in
\* lower and mixed case, hidden children, the two CI names as a directory
\* and as a file, and files that are and are not tracked.
EntryPool ==
    { Entry(<<"tests">>, TRUE), Entry(<<"Tests">>, TRUE), Entry(<<"tests">>, FALSE),
      Entry(<<"Docs">>, TRUE), Entry(<<"examples">>, TRUE), Entry(<<"src">>, TRUE),
      Entry(<<"lib">>, TRUE), Entry(<<"Bin">>, TRUE), Entry(<<"config">>, TRUE),
      Entry(<<"assets">>, TRUE),
      Entry(<<".", "github">>, TRUE), Entry(<<".", "github">>, FALSE),
      Entry(<<".", "gitlab", "-", "ci", ".", "yml">>, FALSE),
      Entry(<<".", "src">>, TRUE), Entry(<<".", "notes", ".", "md">>, FALSE),
      Entry(<<"README", ".", "md">>, FALSE), Entry(<<"index", ".", "js">>, FALSE) }

\* analyzeStructure(dir) is entered: the defaults of lines 67-78.
InitStructure ==
    /\ \E d \in DirPool : fsys = [dir |-> d, listing |-> Listing(<<>>)]
    /\ analysis = [type |-> "scan", structure |-> NoStructure]
    /\ pc = "scan"
    /\ raised = FALSE
    /\ threw = {}
    /\ typeWrites = 0
    /\ readme = [status |-> "none", lines |-> <<>>]
    /\ tlines = <<>>
    /\ tst = IdleToml
    /\ proc = IdleCli

\* Line 81 raises: the catch of line 119 leaves the defaults.
ScanFail ==
    /\ pc = "scan"
    /\ fsys.listing = Listing(<<>>)
    /\ fsys' = [fsys EXCEPT !.listing = Unlistable]
    /\ pc' = "scanned"
    /\ UNCHANGED <<analysis, raised, threw, typeWrites, readme, tomlVars, proc>>

\* One round of the loop of lines 83-118 on the next child.
ScanChild ==
    /\ pc = "scan"
    /\ Len(fsys.listing.entries) < MaxEntries
    /\ \E e \in EntryPool :
         /\ fsys' = [fsys EXCEPT !.listing.entries = Append(@, e)]
         /\ analysis' = [analysis EXCEPT !.structure = ScanEntry(@, e)]
    /\ UNCHANGED <<pc, raised, threw, typeWrites, readme, tomlVars, proc>>

\* Line 123: the children are exhausted, the structure is returned.
ScanReturn ==
    /\ pc = "scan"
    /\ pc' = "scanned"
    /\ UNCHANGED <<fsys, analysis, raised, threw, typeWrites, readme, tomlVars, proc>>

NextStructure == ScanFail \/ ScanChild \/ ScanReturn

SpecStructure == InitStructure /\ [][NextStructure]_vars

\* Some child of the directory is a subdirectory, not hidden, whose
\* lowercased name is in the set.
HasSubdir(es, names) ==
    \E i \in 1..Len(es) :
       es[i].isDir /\ ~StartsWith(es[i].name, ".") /\ ToLower(es[i].name) \in names

\* The names the two sequences of a structure hold.
Listed(structure) ==
    {structure.directories[i] : i \in 1..Len(structure.directories)}
       \cup {structure.mainFiles[i] : i \in 1..Len(structure.mainFiles)}

\* C11: each flag of analyzeStructure is true exactly when a subdirectory
\* that is not hidden has a lowercased name in the flag's set; hasCI is
\* true exactly when the children include a directory named .github or a
\* file named .gitlab-ci.yml; no hidden child is in directories or
\* mainFiles; an empty directory gives the defaults.
C11_FlagsFollowChildren ==
    pc = "scanned" =>
      LET es == fsys.listing.entries
          st == analysis.structure
      IN  /\ st.hasTests = HasSubdir(es, {<<"test">>, <<"tests">>,
                                          <<"_", "_", "tests", "_", "_">>, <<"spec">>})
          /\ st.hasDocs = HasSubdir(es, {<<"docs">>, <<"documentation">>})
          /\ st.hasExamples = HasSubdir(es, {<<"examples">>, <<"example">>})
          /\ st.hasSrc = HasSubdir(es, {<<"src">>, <<"source">>})
          /\ st.hasLib = HasSubdir(es, {<<"lib">>})
          /\ st.hasBin = HasSubdir(es, {<<"bin">>})
          /\ st.hasConfig = HasSubdir(es, {<<"config">>})
          /\ st.hasCI =
                \E i \in 1..Len(es) :
                   \/ es[i].isDir /\ es[i].name = <<".", "github">>
                   \/ ~es[i].isDir
                      /\ es[i].name = <<".", "gitlab", "-", "ci", ".", "yml">>
          /\ \A n \in Listed(st) : ~StartsWith(n, ".")
          /\ (es = <<>> => st = NoStructure)

---------------------------------------------------------------------------
(* The command line: flags, the two checks of main, analysis, generation   *)
(* and the write of the output file.                                       *)

\* Lines 349-353 on the record the probes leave.
Finished(a, fs) ==
    [a EXCEPT
       !.structure = analyzeStructure(fs),
       !.features = extractFeatures(fs, a.type),
       !.scripts = Obj(MergeProps(SpreadProps(a.scripts), detectScripts(fs, a.type)))]

\* The one element of a singleton set.
The(S) == CHOOSE x \in S : TRUE

\* analyzeProject(dir) in one piece: the four probes in their order, each
\* on the record the one before it leaves, then lines 349-353.
analyzeProject(fs) ==
    The({Finished(r, fs) :
           r \in {RustResult(g, fs).a :
                    g \in {GoResult(p, fs).a :
                             p \in {PythonResult(n, fs).a :
                                      n \in {NodeResult(InitialAnalysis(fs.dir), fs).a}}}}})

\* process.cwd()
Cwd == <<"/", "work">>

ReadmeName == <<"README", ".", "md">>
OutMd == <<"OUT", ".", "md">>

\* path.resolve(p), for paths without . and .. segments
Resolve(p) == IF StartsWith(p, "/") THEN p ELSE Cwd \o <<"/">> \o p

\* path.join(dir, name)
JoinPath(dir, name) == dir \o <<"/">> \o name

\* args.includes(tok)
HasArg(args, tok) == \E i \in 1..Len(args) : args[i] = tok

\* Lines 16-35.  output is <<>> for null, else <<the path>>.
Flags(args) ==
    LET isOut(a) == a = <<"-", "-", "output">> \/ a = <<"-", "o">>
        outs == {i \in 1..Len(args) : isOut(args[i])}
        outputIdx == IF outs = {} THEN 0
                     ELSE CHOOSE i \in outs : \A j \in outs : i <= j
        output == IF outputIdx # 0 /\ outputIdx + 1 <= Len(args)
                     /\ args[outputIdx + 1] # <<>>
                  THEN <<args[outputIdx + 1]>>
                  ELSE <<>>
        dirs == {i \in 1..Len(args) :
                   /\ ~StartsWith(args[i], "-")
                   /\ (output = <<>> \/ args[i] # output[1])}
    IN  [help |-> HasArg(args, <<"-", "-", "help">>) \/ HasArg(args, <<"-", "h">>),
         version |-> HasArg(args, <<"-", "-", "version">>) \/ HasArg(args, <<"-", "v">>),
         force |-> HasArg(args, <<"-", "-", "force">>) \/ HasArg(args, <<"-", "f">>),
         output |-> output,
         dir |-> IF dirs = {} THEN Cwd
                 ELSE Resolve(args[CHOOSE i \in dirs : \A j \in dirs : i <= j])]

\* Line 89.
OutputPath(flags) ==
    IF flags.output # <<>> THEN flags.output[1] ELSE JoinPath(flags.dir, ReadmeName)

\* fs.existsSync(p) on the set of files and directories that exist.
Exists(files, p) == Resolve(p) \in files

\* A variant of the guard of line 90 that lets every run through.
NeverBlocked(files, flags) == FALSE

\* Line 90: the output file is there and the force flag is not.
Blocked(files, flags) == Exists(files, OutputPath(flags)) /\ ~flags.force

\* The command lines the process is started with.
ArgsPool ==
    { <<>>,
      << <<"-", "-", "force">> >>,
      << <<"-", "f">> >>,
      << <<"-", "-", "help">> >>,
      << <<"-", "h">>, <<"-", "-", "force">> >>,
      << <<"-", "-", "version">> >>,
      << <<"-", "v">> >>,
      << <<"-", "o">>, OutMd >>,
      << <<"-", "-", "output">>, OutMd, <<"-", "f">> >>,
      << <<"-", "o">>, <<"-", "f">> >>,
      << <<"-", "o">> >>,
      << <<"proj">> >>,
      << <<"proj">>, <<"-", "-", "force">> >>,
      << <<"proj">>, <<"-", "o">>, ReadmeName >> }

\* The files and directories that may exist besides the working directory.
FilePool ==
    { Cwd \o <<"/", "proj">>,
      JoinPath(Cwd, ReadmeName),
      JoinPath(Cwd \o <<"/", "proj">>, ReadmeName),
      JoinPath(Cwd, OutMd),
      JoinPath(Cwd, <<"-", "f">>) }

\* The process starts: its arguments, and the files that exist.  before
\* keeps the files of the start, passed the checks main has passed, writes
\* the paths written, code the exit code once pc is "exited".
InitCli ==
    /\ \E a \in ArgsPool, fl \in SUBSET FilePool :
         /\ (JoinPath(Cwd \o <<"/", "proj">>, ReadmeName) \in fl
                => Cwd \o <<"/", "proj">> \in fl)
         /\ proc = [args |-> a, files |-> fl \cup {Cwd}, before |-> fl \cup {Cwd},
                    passed |-> {}, writes |-> <<>>, code |-> 0]
    /\ pc = "flags"
    /\ fsys = IdleFsys
    /\ analysis = [type |-> "idle"]
    /\ raised = FALSE
    /\ threw = {}
    /\ typeWrites = 0
    /\ readme = [status |-> "none", lines |-> <<>>]
    /\ tlines = <<>>
    /\ tst = IdleToml

\* process.exit(code), or the end of main.
Exit(code) ==
    /\ proc' = [proc EXCEPT !.code = code]
    /\ pc' = "exited"

cliRest == <<fsys, analysis, raised, threw, typeWrites, readme, tomlVars>>

\* Lines 68-71.
ShowHelp ==
    /\ pc = "flags"
    /\ Flags(proc.args).help
    /\ Exit(0)
    /\ UNCHANGED cliRest

\* Lines 73-76.
ShowVersion ==
    /\ pc = "flags"
    /\ ~Flags(proc.args).help
    /\ Flags(proc.args).version
    /\ Exit(0)
    /\ UNCHANGED cliRest

\* Line 135.
StartMain ==
    /\ pc = "flags"
    /\ ~Flags(proc.args).help
    /\ ~Flags(proc.args).version
    /\ pc' = "checkdir"
    /\ UNCHANGED <<proc, cliRest>>

\* Lines 83-86.
CheckDirectory ==
    /\ pc = "checkdir"
    /\ IF ~Exists(proc.files, Flags(proc.args).dir)
       THEN Exit(1)
       ELSE /\ proc' = [proc EXCEPT !.passed = @ \cup {"dir"}]
            /\ pc' = "checkout"
    /\ UNCHANGED cliRest

\* Lines 89-94.
CheckOutput ==
    /\ pc = "checkout"
    /\ IF Blocked(proc.files, Flags(proc.args))
       THEN Exit(1)
       ELSE /\ proc' = [proc EXCEPT !.passed = @ \cup {"guard"}]
            /\ pc' = "analyze"
    /\ UNCHANGED cliRest

\* Line 98, on the manifests the directory holds.
Analyze ==
    /\ pc = "analyze"
    /\ \E f \in {AbsentJson, JsonFile(PkgLib), JsonFile(PkgOdd)} :
         LET fs == [dir |-> Flags(proc.args).dir, packageJson |-> f,
                    pyproject |-> AbsentFile, setupPy |-> FALSE,
                    requirements |-> FALSE, goMod |-> AbsentFile,
                    cargo |-> AbsentFile, listing |-> Listing(<<>>)]
         IN  /\ fsys' = fs
             /\ analysis' = analyzeProject(fs)
    /\ pc' = "generate"
    /\ UNCHANGED <<proc, raised, threw, typeWrites, readme, tomlVars>>

\* Line 113; an error goes to the catch of lines 126-132.
GenerateDocument ==
    /\ pc = "generate"
    /\ readme' = generateReadme(analysis)
    /\ analysis' = RecordAfterGenerate(analysis)
    /\ IF readme'.status = "raised" THEN Exit(1)
       ELSE pc' = "write" /\ UNCHANGED proc
    /\ UNCHANGED <<fsys, raised, threw, typeWrites, tomlVars>>

\* Lines 116-124: fs.writeFileSync writes the file or raises; an error
\* goes to the catch of lines 126-132, else main ends.
WriteOutput ==
    /\ pc = "write"
    /\ \E ok \in BOOLEAN :
         IF ok
         THEN LET out == OutputPath(Flags(proc.args))
              IN  /\ proc' = [proc EXCEPT !.writes = Append(@, out),
                                          !.files = @ \cup {Resolve(out)},
                                          !.code = 0]
                  /\ pc' = "exited"
         ELSE Exit(1)
    /\ UNCHANGED cliRest

NextCli ==
    \/ ShowHelp \/ ShowVersion \/ StartMain \/ CheckDirectory \/ CheckOutput
    \/ Analyze \/ GenerateDocument \/ WriteOutput

SpecCli == InitCli /\ [][NextCli]_vars

\* --force or -f is among the arguments.
ForceGiven == HasArg(proc.args, <<"-", "-", "force">>) \/ HasArg(proc.args, <<"-", "f">>)

\* The resolved output path was there when the process started.
OutputThere == Exists(proc.before, OutputPath(Flags(proc.args)))

\* The output file is written only after the directory check and the
\* guard have passed, and nothing else is written.
WrittenAfterChecks ==
    proc.writes # <<>> =>
      /\ {"dir", "guard"} \subseteq proc.passed
      /\ proc.writes = <<OutputPath(Flags(proc.args))>>

\* C12 as stated: a run in which the resolved output path exists and
\* neither --force nor -f is given exits with code 1 and writes nothing;
\* the file is written only after both checks have passed.
C12_NoOverwriteExitsOne ==
    /\ (pc = "exited" /\ OutputThere /\ ~ForceGiven)
          => proc.code = 1 /\ proc.writes = <<>>
    /\ WrittenAfterChecks

\* C12, amended: such a run writes nothing and exits with code 1, unless a
\* help or version flag is given, when it exits with code 0 before any
\* check; the file is written only after both checks have passed.
C12_NoOverwriteWithoutForce ==
    /\ (OutputThere /\ ~ForceGiven) =>
          /\ proc.writes = <<>>
          /\ pc = "exited" =>
                proc.code = IF Flags(proc.args).help \/ Flags(proc.args).version
                            THEN 0 ELSE 1
    /\ WrittenAfterChecks

C12_GuardStopsRun ==
    /\ pc = "exited"
    /\ OutputThere
    /\ ~ForceGiven
    /\ proc.passed = {"dir"}
    /\ proc.code = 1
    /\ proc.writes = <<>>

---------------------------------------------------------------------------
(* Properties of the generated document, stated over Spec. *)

\* The rows of the command table among the lines of a document.
CommandRows(lines) ==
    SelectSeq(lines, LAMBDA l : l # <<>> /\ l[1] = "| <bq>npm run ")

\* The row of the command table for a script.
CommandRow(key) ==
    <<"| <bq>npm run ">> \o key \o <<"<bq> | ">> \o describeScript(key) \o <<" |">>

\* The script keys the table shows, in the order of the mapping.
ShownKeys(a) ==
    SelectSeq(ObjKeys(a.scripts),
              LAMBDA k : k \in {<<"test">>, <<"build">>, <<"start">>})

\* C13: for a record of type node with a non-empty scripts mapping, the
\* command table of the API block has exactly one row for each script key
\* that is test, build or start and no row for any other key, in the API
\* block and so in the document.
C13_TableRowsForShownScripts ==
    (Returned /\ analysis.type = "node" /\ ObjKeys(analysis.scripts) # <<>>) =>
      LET rows == CommandRows(generateApi(analysis))
          shown == ShownKeys(analysis)
      IN  /\ Len(rows) = Len(shown)
          /\ \A i \in 1..Len(rows) : rows[i] = CommandRow(shown[i])
          /\ \A i, j \in 1..Len(rows) : rows[i] = rows[j] => i = j
          /\ (pc = "generated" /\ readme.status = "ok")
                => CommandRows(readme.lines) = rows

C13_TestBuildLintGiveTwoRows ==
    /\ pc = "generated"
    /\ readme.status = "ok"
    /\ analysis.type = "node"
    /\ \A k \in {<<"test">>, <<"build">>, <<"lint">>} :
          Lookup(analysis.scripts.p, k) # Undef
    /\ CommandRows(readme.lines) = <<CommandRow(<<"test">>), CommandRow(<<"build">>)>>

\* The module path a go.mod declares: what follows the word module on the
\* first line that starts with it, as <<path>>, or <<>> without such a line.
RECURSIVE DeclaredIn(_)
DeclaredIn(lines) ==
    IF lines = <<>> THEN <<>>
    ELSE LET t == Trim(Head(lines))
         IN  IF Len(t) >= 3 /\ t[1] = "module" /\ IsWs(t[2])
             THEN <<Trim(Tail(t))>>
             ELSE DeclaredIn(Tail(lines))

DeclaredModule(content) == DeclaredIn(Split(content, "\n"))

\* go.mod is the only manifest of the directory, and is read.
OnlyGoMod ==
    /\ Detects(fsys, "go")
    /\ \A e \in Ecosystems \ {"go"} : ~ManifestPresent(fsys, e)

\* Some line of the document holds the symbols of part, in a row.
Mentions(lines, part) ==
    \E i \in 1..Len(lines) :
       \E k \in 0..(Len(lines[i]) - Len(part)) :
          SubSeq(lines[i], k + 1, k + Len(part)) = part

\* C14: a directory whose only manifest is a go.mod declaring the module
\* github.com/acme/widget is returned as type go, name widget, repository
\* https://github.com/acme/widget, and its document has go install in the
\* installation block and a GitHub stars badge for acme/widget; in general
\* the name is the last segment of the declared module path, and the
\* repository is set only when that path begins with github.com.
C14_GoModuleEndToEnd ==
    (Returned /\ OnlyGoMod /\ DeclaredModule(fsys.goMod.content) # <<>>) =>
      LET path == DeclaredModule(fsys.goMod.content)[1]
          parts == Split(path, "/")
          url == <<"https", ":", "/", "/">> \o path
      IN  /\ analysis.type = "go"
          /\ analysis.name = Str(parts[Len(parts)])
          /\ analysis.repository =
                IF StartsWith(path, "github.com") THEN Str(url) ELSE Str(<<>>)
          /\ (path = <<"github.com", "/", "acme", "/", "widget">>) =>
                /\ analysis.name = Str(<<"widget">>)
                /\ pc = "generated" =>
                      /\ readme.status = "ok"
                      /\ Mentions(readme.lines, <<"go install ">>)
                      /\ Mentions(readme.lines,
                                  <<"[![GitHub stars](https://img.shields.io/github/stars/",
                                    "acme", "/", "widget">>)

StructurePhrases(st) ==
    LET one(flag, phrase) == IF flag THEN <<phrase>> ELSE <<>>
    IN  one(st.hasTests, "Comprehensive test suite")
        \o one(st.hasDocs, "Detailed documentation")
        \o one(st.hasExamples, "Example code included")
        \o one(st.hasCI, "CI/CD integration")
        \o one(st.hasBin, "CLI support")

NodePhrases ==
    {"Executable CLI tool", "TypeScript definitions", "Test scripts configured",
     "Build system configured"}

====
